---- MODULE Spec2Model ----
(***************************************************************************)
(* SimpleVector<Type> (src/simple_vector.h) over its storage helper        *)
(* ArrayPtr<Type>.  The state is a small heap of array allocations and a   *)
(* set of named SimpleVector objects; every public member function is one  *)
(* atomic action.                                                          *)
(*                                                                         *)
(* Memory.  heap[p] describes what lies behind the pointer value p:        *)
(* alloc is the number of elements of the array new[] returned (0: p is    *)
(* not an allocated array; p = Null is the null pointer) and mem[1..alloc] *)
(* are those elements.  An access outside the allocation is undefined      *)
(* behaviour: the build may produce any value there, so such a slot reads  *)
(* as Indeterminate, a value equal to no element value, and a store to it  *)
(* establishes nothing there but may land in any other array (Outcomes).   *)
(* An uninitialized element is Indeterminate too.                          *)
(* Nothing constrains the program after such an access, so an execution is *)
(* followed up to the call that performs it and no further.                *)
(***************************************************************************)
EXTENDS Integers, Sequences, FiniteSets, TLC

\* Largest capacity a vector is grown to.
MaxCap == 4
\* Number of distinct non-null pointer values of the heap.
NumBufs == 3
\* Longest initializer list.
MaxInit == 2
\* Number of elements the heap has room for.
MaxHeap == 4
\* Longest run of consecutive PushBack calls followed by PushSpec.
MaxPush == 8

\* Type{} : the value-initialized element.
Default == 0
\* An element value other than Type{}.  The vector only copies, moves and
\* assigns elements and never inspects them, so two values tell every
\* misplaced element apart.
Other == Default + 1
Values == {Default, Other}
\* The named vector objects of the program.
Vecs == {1, 2}
\* The local object `temp` of copy assignment.
Temp == 0
Null == 0
BufIds == 1..NumBufs
Ptrs == 0..NumBufs

VARIABLES heap, vec, last

vars == <<heap, vec, last>>

Max(a, b) == IF a >= b THEN a ELSE b

Min(a, b) == IF a <= b THEN a ELSE b

\* ------------------------------------------------------------------ memory

NoBuf == [alloc |-> 0, mem |-> <<>>]

\* A vector object outside its lifetime.
Dead == [alive |-> FALSE, items |-> Null, size |-> 0, capacity |-> 0]

\* The content of a slot the program has not determined: an uninitialized
\* element, or a slot outside every allocation.
Indeterminate == 0 - 1

\* *(p + i), read
Load(b, i) == IF i < b.alloc THEN b.mem[i + 1] ELSE Indeterminate

\* *(p + i) = x
Store(b, i, x) == IF i < b.alloc THEN [b EXCEPT !.mem[i + 1] = x] ELSE b

\* std::fill(p + first, p + lst, x)
StdFill(b, first, lst, x) ==
    [b EXCEPT !.mem = [k \in 1..b.alloc |->
        IF first < k /\ k <= lst THEN x ELSE b.mem[k]]]

\* std::copy / std::move(src + 0, src + n, dst + 0) into another array
StdCopy(src, n, dst) ==
    [dst EXCEPT !.mem = [k \in 1..dst.alloc |->
        IF k <= n THEN Load(src, k - 1) ELSE dst.mem[k]]]

\* std::move(p + first, p + lst, p + dst) within one array, dst < first:
\* ascending order, every source slot is read before it is overwritten.
StdMoveDown(b, first, lst, dst) ==
    [b EXCEPT !.mem = [k \in 1..b.alloc |->
        IF dst < k /\ k <= dst + (lst - first)
        THEN Load(b, k - 1 + (first - dst))
        ELSE b.mem[k]]]

\* std::move_backward(p + first, p + lst, p + dlast) within one array,
\* dlast > lst: descending order, sources are read before being overwritten.
StdMoveBackward(b, first, lst, dlast) ==
    [b EXCEPT !.mem = [k \in 1..b.alloc |->
        IF dlast - (lst - first) < k /\ k <= dlast
        THEN Load(b, k - 1 - (dlast - lst))
        ELSE b.mem[k]]]

\* ---------------------------------------------------------------- ArrayPtr

FreshId(h) ==
    CHOOSE p \in BufIds :
        /\ h[p].alloc = 0
        /\ \A q \in BufIds : h[q].alloc = 0 => p <= q

\* ArrayPtr<Type>(n): n default-valued elements, no allocation for n = 0.
ArrayPtrNew(h, n) ==
    IF n = 0
    THEN [heap |-> h, ptr |-> Null]
    ELSE LET p == FreshId(h)
         IN  [heap |-> [h EXCEPT ![p] = [alloc |-> n,
                                         mem |-> [k \in 1..n |-> Default]]],
              ptr |-> p]

\* ~ArrayPtr(): delete[] of the owned array, if any.
ArrayPtrDelete(h, p) ==
    IF p = Null THEN h ELSE [h EXCEPT ![p] = NoBuf]

\* ------------------------------------------------------------ SimpleVector
\* Every operation maps a program state S = [heap, vec] to the state after it.

\* SimpleVector() noexcept = default
CtorDefault(S, a) ==
    [S EXCEPT !.vec[a] = [alive |-> TRUE, items |-> Null, size |-> 0, capacity |-> 0]]

\* explicit SimpleVector(size_t size)
CtorSize(S, a, size) ==
    LET r == IF size > 0 THEN ArrayPtrNew(S.heap, size) ELSE [heap |-> S.heap, ptr |-> Null]
    IN  [heap |-> [r.heap EXCEPT ![r.ptr] = StdFill(@, 0, size, Default)],
         vec  |-> [S.vec EXCEPT ![a] = [alive |-> TRUE, items |-> r.ptr,
                                        size |-> size, capacity |-> size]]]

\* SimpleVector(size_t size, const Type& value)
CtorFill(S, a, size, value) ==
    LET r == ArrayPtrNew(S.heap, size)
    IN  [heap |-> [r.heap EXCEPT ![r.ptr] = StdFill(@, 0, size, value)],
         vec  |-> [S.vec EXCEPT ![a] = [alive |-> TRUE, items |-> r.ptr,
                                        size |-> size, capacity |-> size]]]

\* SimpleVector(std::initializer_list<Type> init)
CtorInitList(S, a, init) ==
    LET n == Len(init)
        r == IF n > 0 THEN ArrayPtrNew(S.heap, n) ELSE [heap |-> S.heap, ptr |-> Null]
    IN  [heap |-> [r.heap EXCEPT ![r.ptr].mem =
                        [k \in 1..Len(@) |-> IF k <= n THEN init[k] ELSE @[k]]],
         vec  |-> [S.vec EXCEPT ![a] = [alive |-> TRUE, items |-> r.ptr,
                                        size |-> n, capacity |-> n]]]

\* explicit SimpleVector(ReserveProxyObj reserve): a plain new Type[capacity],
\* which leaves the elements of a trivially constructible Type uninitialized.
CtorReserve(S, a, capacity) ==
    LET r == ArrayPtrNew(S.heap, capacity)
    IN  [heap |-> [r.heap EXCEPT ![r.ptr].mem = [k \in 1..Len(@) |-> Indeterminate]],
         vec  |-> [S.vec EXCEPT ![a] = [alive |-> TRUE, items |-> r.ptr,
                                        size |-> 0, capacity |-> capacity]]]

\* SimpleVector(const SimpleVector& other): an array of other.size_ elements,
\* size_ = other.size_, capacity_ = other.capacity_.
CtorCopy(S, a, other) ==
    LET o == S.vec[other]
        r == IF o.size > 0 THEN ArrayPtrNew(S.heap, o.size)
                           ELSE [heap |-> S.heap, ptr |-> Null]
    IN  [heap |-> [r.heap EXCEPT ![r.ptr] = StdCopy(S.heap[o.items], o.size, @)],
         vec  |-> [S.vec EXCEPT ![a] = [alive |-> TRUE, items |-> r.ptr,
                                        size |-> o.size, capacity |-> o.capacity]]]

\* A move constructor that forgets to take the array away from other.
CtorMove_KeepsSource(S, a, other) ==
    LET o == S.vec[other]
    IN  [S EXCEPT !.vec[a] = [alive |-> TRUE, items |-> o.items,
                              size |-> o.size, capacity |-> o.capacity],
                  !.vec[other].size = 0,
                  !.vec[other].capacity = 0]

\* A move constructor that leaves other its capacity_.
CtorMove_KeepsCapacity(S, a, other) ==
    LET o == S.vec[other]
    IN  [S EXCEPT !.vec[a] = [alive |-> TRUE, items |-> o.items,
                              size |-> o.size, capacity |-> o.capacity],
                  !.vec[other] = [alive |-> TRUE, items |-> Null,
                                  size |-> 0, capacity |-> o.capacity]]

\* SimpleVector(SimpleVector&& other) noexcept
CtorMove(S, a, other) ==
    LET o == S.vec[other]
    IN  [S EXCEPT !.vec[a] = [alive |-> TRUE, items |-> o.items,
                              size |-> o.size, capacity |-> o.capacity],
                  !.vec[other] = [alive |-> TRUE, items |-> Null,
                                  size |-> 0, capacity |-> 0]]

\* ~SimpleVector(): the ArrayPtr member releases the array.
Dtor(S, a) ==
    [heap |-> ArrayPtrDelete(S.heap, S.vec[a].items),
     vec  |-> [S.vec EXCEPT ![a] = Dead]]

\* A swap that leaves the capacities where they are.
Swap_KeepsCapacity(S, a, other) ==
    [S EXCEPT !.vec[a].items = S.vec[other].items,
              !.vec[other].items = S.vec[a].items,
              !.vec[a].size = S.vec[other].size,
              !.vec[other].size = S.vec[a].size]

\* void swap(SimpleVector& other) noexcept
Swap(S, a, other) ==
    [S EXCEPT !.vec[a].items = S.vec[other].items,
              !.vec[other].items = S.vec[a].items,
              !.vec[a].size = S.vec[other].size,
              !.vec[other].size = S.vec[a].size,
              !.vec[a].capacity = S.vec[other].capacity,
              !.vec[other].capacity = S.vec[a].capacity]

\* SimpleVector& operator=(const SimpleVector& rhs)
CopyAssign(S, a, rhs) ==
    IF a # rhs
    THEN Dtor(Swap(CtorCopy(S, Temp, rhs), a, Temp), Temp)
    ELSE S

\* A move assignment that reads rhs.size_ without resetting it.
MoveAssign_KeepsSourceSize(S, a, rhs) ==
    IF a # rhs
    THEN [S EXCEPT !.vec[a].items = S.vec[rhs].items,
                   !.vec[rhs].items = S.vec[a].items,
                   !.vec[a].size = S.vec[rhs].size,
                   !.vec[a].capacity = S.vec[rhs].capacity,
                   !.vec[rhs].capacity = 0]
    ELSE S

\* SimpleVector& operator=(SimpleVector&& rhs) noexcept
MoveAssign(S, a, rhs) ==
    IF a # rhs
    THEN [S EXCEPT !.vec[a].items = S.vec[rhs].items,
                   !.vec[rhs].items = S.vec[a].items,
                   !.vec[a].size = S.vec[rhs].size,
                   !.vec[rhs].size = 0,
                   !.vec[a].capacity = S.vec[rhs].capacity,
                   !.vec[rhs].capacity = 0]
    ELSE S

GetSize(S, a) == S.vec[a].size

GetCapacity(S, a) == S.vec[a].capacity

IsEmpty(S, a) == S.vec[a].size = 0

\* A reference or iterator: the array it points into and the index there.
Ref(p, i) == [ptr |-> p, idx |-> i]

NoRef == Ref(0 - 1, 0 - 1)

\* Type& operator[](size_t index) noexcept, for index < size_
Index(S, a, index) == Ref(S.vec[a].items, index)

\* An At that tests index > size_.
At_OffByOne(S, a, index) ==
    IF index > S.vec[a].size
    THEN [thrown |-> TRUE, ref |-> NoRef]
    ELSE [thrown |-> FALSE, ref |-> Ref(S.vec[a].items, index)]

\* Type& At(size_t index), both overloads: the reference, or the
\* std::out_of_range thrown.
At(S, a, index) ==
    IF index >= S.vec[a].size
    THEN [thrown |-> TRUE, ref |-> NoRef]
    ELSE [thrown |-> FALSE, ref |-> Ref(S.vec[a].items, index)]

\* A Clear that gives up the capacity as well.
Clear_ResetsCapacity(S, a) == [S EXCEPT !.vec[a].size = 0, !.vec[a].capacity = 0]

\* void Clear() noexcept
Clear(S, a) == [S EXCEPT !.vec[a].size = 0]

\* A Resize that reallocates without recording the new capacity.
Resize_KeepsCapacity(S, a, new_size) ==
    LET me == S.vec[a]
    IN  IF new_size < me.size
        THEN [S EXCEPT !.vec[a].size = new_size]
        ELSE IF new_size <= me.capacity
        THEN [S EXCEPT !.heap[me.items] = StdFill(@, me.size, new_size, Default),
                       !.vec[a].size = new_size]
        ELSE LET r == ArrayPtrNew(S.heap, new_size)
                 moved == [r.heap EXCEPT ![r.ptr] = StdCopy(S.heap[me.items], me.size, @)]
                 filled == [moved EXCEPT ![r.ptr] = StdFill(@, me.size, new_size, Default)]
             IN  [heap |-> ArrayPtrDelete(filled, me.items),
                  vec  |-> [S.vec EXCEPT ![a].items = r.ptr,
                                         ![a].size = new_size]]

\* A Resize that grows within the capacity without the std::fill.
Resize_NoFill(S, a, new_size) ==
    LET me == S.vec[a]
    IN  IF new_size <= me.capacity
        THEN [S EXCEPT !.vec[a].size = new_size]
        ELSE LET r == ArrayPtrNew(S.heap, new_size)
                 moved == [r.heap EXCEPT ![r.ptr] = StdCopy(S.heap[me.items], me.size, @)]
                 filled == [moved EXCEPT ![r.ptr] = StdFill(@, me.size, new_size, Default)]
             IN  [heap |-> ArrayPtrDelete(filled, me.items),
                  vec  |-> [S.vec EXCEPT ![a].items = r.ptr,
                                         ![a].capacity = new_size,
                                         ![a].size = new_size]]

\* void Resize(size_t new_size)
Resize(S, a, new_size) ==
    LET me == S.vec[a]
    IN  IF new_size < me.size
        THEN [S EXCEPT !.vec[a].size = new_size]
        ELSE IF new_size <= me.capacity
        THEN [S EXCEPT !.heap[me.items] = StdFill(@, me.size, new_size, Default),
                       !.vec[a].size = new_size]
        ELSE LET r == ArrayPtrNew(S.heap, new_size)
                 moved == [r.heap EXCEPT ![r.ptr] = StdCopy(S.heap[me.items], me.size, @)]
                 filled == [moved EXCEPT ![r.ptr] = StdFill(@, me.size, new_size, Default)]
             IN  [heap |-> ArrayPtrDelete(filled, me.items),
                  vec  |-> [S.vec EXCEPT ![a].items = r.ptr,
                                         ![a].capacity = new_size,
                                         ![a].size = new_size]]

\* A Reserve that reallocates without moving the elements over.
Reserve_DropsElements(S, a, new_capacity) ==
    LET me == S.vec[a]
    IN  IF new_capacity > me.capacity
        THEN LET r == ArrayPtrNew(S.heap, new_capacity)
             IN  [heap |-> ArrayPtrDelete(r.heap, me.items),
                  vec  |-> [S.vec EXCEPT ![a].items = r.ptr,
                                         ![a].capacity = new_capacity]]
        ELSE S

\* void Reserve(size_t new_capacity)
Reserve(S, a, new_capacity) ==
    LET me == S.vec[a]
    IN  IF new_capacity > me.capacity
        THEN LET r == ArrayPtrNew(S.heap, new_capacity)
                 moved == [r.heap EXCEPT ![r.ptr] = StdCopy(S.heap[me.items], me.size, @)]
             IN  [heap |-> ArrayPtrDelete(moved, me.items),
                  vec  |-> [S.vec EXCEPT ![a].items = r.ptr,
                                         ![a].capacity = new_capacity]]
        ELSE S

\* void PopBack() noexcept, for size_ > 0
PopBack(S, a) == [S EXCEPT !.vec[a].size = @ - 1]

\* A PushBack that reallocates without moving the elements over.
PushBackCopy_DropsElements(S, a, value) ==
    LET me == S.vec[a]
        S1 == IF me.size >= me.capacity
              THEN LET capacity == Max(me.capacity * 2, 1)
                       r == ArrayPtrNew(S.heap, capacity)
                   IN  [heap |-> ArrayPtrDelete(r.heap, me.items),
                        vec  |-> [S.vec EXCEPT ![a].items = r.ptr,
                                               ![a].capacity = capacity]]
              ELSE S
    IN  [S1 EXCEPT !.heap[S1.vec[a].items] = Store(@, me.size, value),
                   !.vec[a].size = @ + 1]

\* A PushBack that grows the capacity by one element.
PushBackCopy_GrowsByOne(S, a, value) ==
    LET me == S.vec[a]
        S1 == IF me.size >= me.capacity
              THEN LET capacity == me.capacity + 1
                       r == ArrayPtrNew(S.heap, capacity)
                       moved == [r.heap EXCEPT ![r.ptr] =
                                    StdCopy(S.heap[me.items], me.size, @)]
                   IN  [heap |-> ArrayPtrDelete(moved, me.items),
                        vec  |-> [S.vec EXCEPT ![a].items = r.ptr,
                                               ![a].capacity = capacity]]
              ELSE S
    IN  [S1 EXCEPT !.heap[S1.vec[a].items] = Store(@, me.size, value),
                   !.vec[a].size = @ + 1]

\* void PushBack(const Type& value): reallocates inline.
PushBackCopy(S, a, value) ==
    LET me == S.vec[a]
        S1 == IF me.size >= me.capacity
              THEN LET capacity == Max(me.capacity * 2, 1)
                       r == ArrayPtrNew(S.heap, capacity)
                       moved == [r.heap EXCEPT ![r.ptr] =
                                    StdCopy(S.heap[me.items], me.size, @)]
                   IN  [heap |-> ArrayPtrDelete(moved, me.items),
                        vec  |-> [S.vec EXCEPT ![a].items = r.ptr,
                                               ![a].capacity = capacity]]
              ELSE S
    IN  [S1 EXCEPT !.heap[S1.vec[a].items] = Store(@, me.size, value),
                   !.vec[a].size = @ + 1]

\* A PushBack(Type&&) that reserves room for one more element.
PushBackMove_GrowsByOne(S, a, value) ==
    LET me == S.vec[a]
        S1 == IF me.size >= me.capacity
              THEN Reserve(S, a, me.capacity + 1)
              ELSE S
    IN  [S1 EXCEPT !.heap[S1.vec[a].items] = Store(@, me.size, value),
                   !.vec[a].size = @ + 1]

\* void PushBack(Type&& value): grows through Reserve.
PushBackMove(S, a, value) ==
    LET me == S.vec[a]
        S1 == IF me.size >= me.capacity
              THEN Reserve(S, a, Max(me.capacity * 2, 1))
              ELSE S
    IN  [S1 EXCEPT !.heap[S1.vec[a].items] = Store(@, me.size, value),
                   !.vec[a].size = @ + 1]

\* Number of elements the std::move of Reserve(new_capacity) moves.
MovesOfReserve(S, a, new_capacity) ==
    IF new_capacity > S.vec[a].capacity THEN S.vec[a].size ELSE 0

\* Number of elements the reallocation of PushBack(const Type&) moves.
MovesOfPushBackCopy(S, a) ==
    IF S.vec[a].size >= S.vec[a].capacity THEN S.vec[a].size ELSE 0

\* Number of elements the reallocation of PushBack(Type&&) moves.
MovesOfPushBackMove(S, a) ==
    IF S.vec[a].size >= S.vec[a].capacity
    THEN MovesOfReserve(S, a, Max(S.vec[a].capacity * 2, 1))
    ELSE 0

\* Iterator Insert(ConstIterator pos, Type value), index = pos - begin():
\* the elements are shifted only in the branch that does not grow.
Insert(S, a, index, value) ==
    LET me == S.vec[a]
        S1 == IF me.size >= me.capacity
              THEN Reserve(S, a, Max(me.capacity * 2, 1))
              ELSE [S EXCEPT !.heap[me.items] =
                       StdMoveBackward(@, index, me.size, me.size + 1)]
    IN  [st  |-> [S1 EXCEPT !.heap[S1.vec[a].items] = Store(@, index, value),
                            !.vec[a].size = @ + 1],
         ret |-> Ref(S1.vec[a].items, index)]

\* An Erase that moves [pos, end()) instead of [pos + 1, end()).
Erase_MovesFromPos(S, a, index) ==
    LET me == S.vec[a]
    IN  [st  |-> [S EXCEPT !.heap[me.items] = StdMoveDown(@, index, me.size, index),
                           !.vec[a].size = @ - 1],
         ret |-> Ref(me.items, index)]

\* Iterator Erase(ConstIterator pos), index = pos - begin() < size_
Erase(S, a, index) ==
    LET me == S.vec[a]
    IN  [st  |-> [S EXCEPT !.heap[me.items] = StdMoveDown(@, index + 1, me.size, index),
                           !.vec[a].size = @ - 1],
         ret |-> Ref(me.items, index)]

\* std::equal(lhs.cbegin() + k, lhs.cend(), rhs.cbegin() + k)
RECURSIVE StdEqual(_, _, _, _)
StdEqual(S, lhs, rhs, k) ==
    IF k = S.vec[lhs].size THEN TRUE
    ELSE IF Load(S.heap[S.vec[lhs].items], k) # Load(S.heap[S.vec[rhs].items], k) THEN FALSE
    ELSE StdEqual(S, lhs, rhs, k + 1)

\* std::lexicographical_compare(lhs.cbegin() + k, lhs.cend(),
\*                              rhs.cbegin() + k, rhs.cend())
RECURSIVE StdLexicographicalCompare(_, _, _, _)
StdLexicographicalCompare(S, lhs, rhs, k) ==
    IF k = S.vec[lhs].size \/ k = S.vec[rhs].size
    THEN k = S.vec[lhs].size /\ k # S.vec[rhs].size
    ELSE LET l == Load(S.heap[S.vec[lhs].items], k)
             r == Load(S.heap[S.vec[rhs].items], k)
         IN  IF l < r THEN TRUE
             ELSE IF r < l THEN FALSE
             ELSE StdLexicographicalCompare(S, lhs, rhs, k + 1)

\* An operator== that leaves the comparison of the sizes out.
OpEq_NoSizeCheck(S, lhs, rhs) == StdEqual(S, lhs, rhs, 0)

\* bool operator==(const SimpleVector& lhs, const SimpleVector& rhs)
OpEq(S, lhs, rhs) ==
    GetSize(S, lhs) = GetSize(S, rhs) /\ StdEqual(S, lhs, rhs, 0)

\* bool operator!=
OpNe(S, lhs, rhs) == ~OpEq(S, lhs, rhs)

\* bool operator<
OpLt(S, lhs, rhs) == StdLexicographicalCompare(S, lhs, rhs, 0)

\* bool operator<=
OpLe(S, lhs, rhs) == ~OpLt(S, rhs, lhs)

\* bool operator>
OpGt(S, lhs, rhs) == OpLt(S, rhs, lhs)

\* bool operator>=
OpGe(S, lhs, rhs) == ~OpLt(S, lhs, rhs)

\* ------------------------------------------------------------------ state

St == [heap |-> heap, vec |-> vec]

\* The element a reference denotes.
Deref(S, r) == Load(S.heap[r.ptr], r.idx)

\* The slots [0, n) behind vector a's items_, in index order.
SlotsOf(S, a, n) == [k \in 1..n |-> Load(S.heap[S.vec[a].items], k - 1)]

\* The live elements [0, size_) of vector a.
Elems(S, a) == SlotsOf(S, a, S.vec[a].size)

\* Number of elements of the array vector a owns (0 when it owns none).
Allocated(S, a) == S.heap[S.vec[a].items].alloc

\* Every live element of every vector lies inside the array the vector owns.
\* The accesses of every operation stay below the size_ it starts from or
\* ends with, so a call from such a state has accessed memory outside an
\* allocation exactly if it ends in a state that is not.
InBounds(S) == \A a \in Vecs : S.vec[a].size <= Allocated(S, a)

\* Number of elements allocated at the addresses 1..n.
RECURSIVE SumAlloc(_, _)
SumAlloc(h, n) == IF n = 0 THEN 0 ELSE h[n].alloc + SumAlloc(h, n - 1)

\* Addresses are only ever compared for equality, so the state is kept up to
\* a renaming of the addresses: the arrays are numbered in the order of the
\* vectors that own them, the remaining addresses after them.
RECURSIVE OwnedUpTo(_, _)
OwnedUpTo(S, n) ==
    IF n = 0 THEN <<>>
    ELSE LET r == OwnedUpTo(S, n - 1)
             p == S.vec[n].items
         IN  IF p = Null \/ \E k \in 1..Len(r) : r[k] = p THEN r ELSE Append(r, p)

RECURSIVE Ascending(_, _)
Ascending(ps, from) ==
    IF from > NumBufs THEN <<>>
    ELSE IF from \in ps THEN <<from>> \o Ascending(ps, from + 1)
    ELSE Ascending(ps, from + 1)

Renaming(S) ==
    LET owned == OwnedUpTo(S, Cardinality(Vecs))
        order == owned \o Ascending(BufIds \ {owned[k] : k \in 1..Len(owned)}, 1)
    IN  [to   |-> [p \in Ptrs |-> IF p = Null THEN Null
                                   ELSE CHOOSE k \in BufIds : order[k] = p],
         from |-> [q \in Ptrs |-> IF q = Null THEN Null ELSE order[q]]]

Canon(S, m) ==
    [heap |-> [q \in Ptrs |-> S.heap[m.from[q]]],
     vec  |-> [v \in DOMAIN S.vec |-> [S.vec[v] EXCEPT !.items = m.to[@]]]]

\* What a caller can see of vector a, and what lies behind its items_.
Snap(S, a) ==
    [alive |-> S.vec[a].alive, size |-> S.vec[a].size, capacity |-> S.vec[a].capacity,
     alloc |-> Allocated(S, a), slots |-> SlotsOf(S, a, S.vec[a].capacity)]

NoSnap == [v \in Vecs |-> [alive |-> FALSE, size |-> 0, capacity |-> 0,
                            alloc |-> 0, slots |-> <<>>]]

\* No call is in progress.
Idle ==
    [op |-> "", a |-> 0 - 1, b |-> 0 - 1, i |-> 0 - 1, x |-> 0 - 1, ret |-> NoRef,
     thrown |-> FALSE, res |-> <<>>, pre |-> NoSnap,
     op0 |-> "", a0 |-> 0 - 1, b0 |-> 0 - 1, i0 |-> 0 - 1, pre0 |-> NoSnap]

\* The states a call on vector a may leave when the code's accesses lead to
\* S.  A call that has stored outside its array (S is not InBounds) may have
\* hit any element of any other array, which then holds an undetermined
\* value.
Outcomes(S, a) ==
    IF InBounds(S) THEN {S}
    ELSE {S} \cup {[S EXCEPT !.heap[p].mem[k] = Indeterminate] :
                      <<p, k>> \in {w \in BufIds \X (1..MaxCap) :
                                       /\ w[1] # S.vec[a].items
                                       /\ w[2] <= S.heap[w[1]].alloc}}

\* A call of operation op on vector a (other vector b, index or size
\* argument i, value argument x) takes the program to state S, returning ret
\* or throwing.  Until the caller goes on, last records the call and the
\* vectors as they were before it (pre); for a call that directly follows
\* the call being observed, also that call, its arguments and the vectors
\* before it (op0, a0, b0, i0, pre0).  The heap has room for MaxHeap elements.
Call(S, op, a, b, i, x, ret, thrown) ==
    /\ SumAlloc(S.heap, NumBufs) <= MaxHeap
    /\ \E W \in Outcomes(S, a) :
        LET m == Renaming(W)
            T == Canon(W, m)
        IN  /\ heap' = T.heap
            /\ vec' = T.vec
            /\ last' = [op |-> op, a |-> a, b |-> b, i |-> i, x |-> x,
                        ret |-> IF ret = NoRef THEN NoRef
                                ELSE [ret EXCEPT !.ptr = m.to[@]],
                        thrown |-> thrown,
                        res |-> <<>>,
                        pre |-> [v \in Vecs |-> Snap(St, v)],
                        op0 |-> last.op, a0 |-> last.a, b0 |-> last.b,
                        i0 |-> last.i, pre0 |-> last.pre]

Ready == last.op = ""

\* A mutating call may be made when no call is being observed, and directly
\* after a copy or move construction that is.
CanMutate ==
    \/ Ready
    \/ last.op \in {"SimpleVector(copy)", "SimpleVector(move)"} /\ last.op0 = ""

Init ==
    /\ heap = [p \in Ptrs |-> NoBuf]
    /\ vec = [a \in Vecs \cup {Temp} |-> IF a = Temp THEN Dead
                ELSE [alive |-> TRUE, items |-> Null, size |-> 0, capacity |-> 0]]
    /\ last = Idle

\* ---------------------------------------------------------------- actions
\* One action per member function, called by the program on any of its
\* vectors with any arguments that meet the function's precondition.

Sizes == 0..MaxCap

InitLists == UNION {[1..n -> Values] : n \in 0..MaxInit}

DoCtorDefault ==
    /\ Ready
    /\ \E a \in Vecs :
        /\ ~vec[a].alive
        /\ Call(CtorDefault(St, a), "SimpleVector()", a, -1, -1, -1, NoRef, FALSE)

DoCtorSize ==
    /\ Ready
    /\ \E a \in Vecs, n \in Sizes :
        /\ ~vec[a].alive
        /\ Call(CtorSize(St, a, n), "SimpleVector(size)", a, -1, n, -1, NoRef, FALSE)

DoCtorFill ==
    /\ Ready
    /\ \E a \in Vecs, n \in Sizes, x \in Values :
        /\ ~vec[a].alive
        /\ Call(CtorFill(St, a, n, x), "SimpleVector(size,value)", a, -1, n, x, NoRef, FALSE)

DoCtorInitList ==
    /\ Ready
    /\ \E a \in Vecs, init \in InitLists :
        /\ ~vec[a].alive
        /\ Call(CtorInitList(St, a, init), "SimpleVector(init)", a, -1, Len(init), -1,
                NoRef, FALSE)

DoCtorReserve ==
    /\ Ready
    /\ \E a \in Vecs, n \in Sizes :
        /\ ~vec[a].alive
        /\ Call(CtorReserve(St, a, n), "SimpleVector(Reserve)", a, -1, n, -1, NoRef, FALSE)

DoCtorCopy ==
    /\ Ready
    /\ \E a \in Vecs, b \in Vecs :
        /\ a # b /\ ~vec[a].alive /\ vec[b].alive
        /\ Call(CtorCopy(St, a, b), "SimpleVector(copy)", a, b, -1, -1, NoRef, FALSE)

DoCtorMove ==
    /\ Ready
    /\ \E a \in Vecs, b \in Vecs :
        /\ a # b /\ ~vec[a].alive /\ vec[b].alive
        /\ Call(CtorMove(St, a, b), "SimpleVector(move)", a, b, -1, -1, NoRef, FALSE)

DoDtor ==
    /\ Ready
    /\ \E a \in Vecs :
        /\ vec[a].alive
        /\ Call(Dtor(St, a), "~SimpleVector", a, -1, -1, -1, NoRef, FALSE)

DoCopyAssign ==
    /\ Ready
    /\ \E a \in Vecs, b \in Vecs :
        /\ vec[a].alive /\ vec[b].alive
        /\ Call(CopyAssign(St, a, b), "operator=(copy)", a, b, -1, -1, NoRef, FALSE)

DoMoveAssign ==
    /\ Ready
    /\ \E a \in Vecs, b \in Vecs :
        /\ vec[a].alive /\ vec[b].alive
        /\ Call(MoveAssign(St, a, b), "operator=(move)", a, b, -1, -1, NoRef, FALSE)

DoSwap ==
    /\ Ready
    /\ \E a \in Vecs, b \in Vecs :
        /\ vec[a].alive /\ vec[b].alive
        /\ Call(Swap(St, a, b), "swap", a, b, -1, -1, NoRef, FALSE)

\* The same swap once more, directly after a swap.
DoSwapAgain ==
    /\ last.op = "swap"
    /\ last.op0 = ""
    /\ Call(Swap(St, last.a, last.b), "swap", last.a, last.b, -1, -1, NoRef, FALSE)

\* v[i], read
DoIndex ==
    /\ Ready
    /\ \E a \in Vecs, i \in Sizes :
        /\ vec[a].alive
        /\ i < vec[a].size
        /\ Call(St, "operator[]", a, -1, i, -1, Index(St, a, i), FALSE)

\* v[i] = x
DoAssignElem ==
    /\ CanMutate
    /\ \E a \in Vecs, i \in Sizes, x \in Values :
        /\ vec[a].alive
        /\ i < vec[a].size
        /\ LET r == Index(St, a, i)
           IN  Call([St EXCEPT !.heap[r.ptr] = Store(@, r.idx, x)],
                    "operator[]=", a, -1, i, x, r, FALSE)

DoAt ==
    /\ Ready
    /\ \E a \in Vecs, i \in Sizes :
        /\ vec[a].alive
        /\ LET r == At(St, a, i)
           IN  Call(St, "At", a, -1, i, -1, r.ref, r.thrown)

DoClear ==
    /\ CanMutate
    /\ \E a \in Vecs :
        /\ vec[a].alive
        /\ Call(Clear(St, a), "Clear", a, -1, -1, -1, NoRef, FALSE)

DoResize ==
    /\ CanMutate
    /\ \E a \in Vecs, n \in Sizes :
        /\ vec[a].alive
        /\ Call(Resize(St, a, n), "Resize", a, -1, n, -1, NoRef, FALSE)

\* A second Resize of the vector a Resize has just shrunk, or left as it was.
DoResizeAgain ==
    /\ last.op = "Resize"
    /\ last.op0 = ""
    /\ last.i <= last.pre[last.a].size
    /\ \E n \in Sizes :
        Call(Resize(St, last.a, n), "Resize", last.a, -1, n, -1, NoRef, FALSE)

DoReserve ==
    /\ CanMutate
    /\ \E a \in Vecs, n \in Sizes :
        /\ vec[a].alive
        /\ Call(Reserve(St, a, n), "Reserve", a, -1, n, -1, NoRef, FALSE)

DoPopBack ==
    /\ CanMutate
    /\ \E a \in Vecs :
        /\ vec[a].alive
        /\ vec[a].size > 0
        /\ Call(PopBack(St, a), "PopBack", a, -1, -1, -1, NoRef, FALSE)

\* Growth is followed up to MaxCap.
CanGrow(a) ==
    vec[a].size < vec[a].capacity \/ Max(vec[a].capacity * 2, 1) <= MaxCap

DoPushBackCopy ==
    /\ CanMutate
    /\ \E a \in Vecs, x \in Values :
        /\ vec[a].alive
        /\ CanGrow(a)
        /\ Call(PushBackCopy(St, a, x), "PushBack(const&)", a, -1, -1, x, NoRef, FALSE)

DoPushBackMove ==
    /\ CanMutate
    /\ \E a \in Vecs, x \in Values :
        /\ vec[a].alive
        /\ CanGrow(a)
        /\ Call(PushBackMove(St, a, x), "PushBack(&&)", a, -1, -1, x, NoRef, FALSE)

DoInsert ==
    /\ CanMutate
    /\ \E a \in Vecs, i \in Sizes, x \in Values :
        /\ vec[a].alive
        /\ i <= vec[a].size
        /\ CanGrow(a)
        /\ LET r == Insert(St, a, i, x)
           IN  Call(r.st, "Insert", a, -1, i, x, r.ret, FALSE)

DoErase ==
    /\ CanMutate
    /\ \E a \in Vecs, i \in Sizes :
        /\ vec[a].alive
        /\ i < vec[a].size
        /\ LET r == Erase(St, a, i)
           IN  Call(r.st, "Erase", a, -1, i, -1, r.ret, FALSE)

\* The six comparisons of a with b; res holds their results.
DoCompare ==
    /\ Ready
    /\ \E a \in Vecs, b \in Vecs :
        /\ vec[a].alive /\ vec[b].alive
        /\ last' = [Idle EXCEPT !.op = "compare", !.a = a, !.b = b,
                                !.res = [eq |-> OpEq(St, a, b), ne |-> OpNe(St, a, b),
                                         lt |-> OpLt(St, a, b), le |-> OpLe(St, a, b),
                                         gt |-> OpGt(St, a, b), ge |-> OpGe(St, a, b)],
                                !.pre = [v \in Vecs |-> Snap(St, v)]]
        /\ UNCHANGED <<heap, vec>>

\* The caller goes on to its next statement, unless the call has accessed
\* memory outside an allocation.
Return ==
    /\ ~Ready
    /\ InBounds(St)
    /\ last' = Idle
    /\ UNCHANGED <<heap, vec>>

Next ==
    \/ DoCtorDefault
    \/ DoCtorSize
    \/ DoCtorFill
    \/ DoCtorInitList
    \/ DoCtorReserve
    \/ DoCtorCopy
    \/ DoCtorMove
    \/ DoDtor
    \/ DoCopyAssign
    \/ DoMoveAssign
    \/ DoSwap
    \/ DoSwapAgain
    \/ DoIndex
    \/ DoAssignElem
    \/ DoAt
    \/ DoClear
    \/ DoResize
    \/ DoResizeAgain
    \/ DoReserve
    \/ DoPopBack
    \/ DoPushBackCopy
    \/ DoPushBackMove
    \/ DoInsert
    \/ DoErase
    \/ DoCompare
    \/ Return

Spec == Init /\ [][Next]_vars

\* ----------------------------------------------------------------- claims
\* While a call is being observed (last.op names it), Was(a) is vector a as
\* it was before the call and WasElems(a) its elements [0, size_) then.

Was(a) == last.pre[a]

WasElems(a) == SubSeq(Was(a).slots, 1, Was(a).size)

PushBacks == {"PushBack(const&)", "PushBack(&&)"}

Copies == {"SimpleVector(copy)", "operator=(copy)"}

\* C1: Insert(begin() + i, v) with i in [0, size], also when size_ ==
\* capacity_, yields old[0..i) ++ [v] ++ old[i..size); the size grows by
\* exactly 1 and the iterator returned denotes index i of the current array.
C1_InsertShifts ==
    last.op = "Insert" =>
        LET a == last.a
            i == last.i
            old == WasElems(a)
        IN  /\ vec[a].size = Len(old) + 1
            /\ Elems(St, a) = SubSeq(old, 1, i) \o <<last.x>> \o SubSeq(old, i + 1, Len(old))
            /\ last.ret = Ref(vec[a].items, i)

\* C2: a copy-constructed or copy-assigned vector has the size of its
\* source, the source's elements in order, and a capacity equal to the
\* source's size, also when the source's capacity exceeds its size.
C2_CopyCapacityIsSourceSize ==
    (last.op \in Copies /\ last.a # last.b) =>
        LET a == last.a
            src == last.b
        IN  /\ vec[a].size = Was(src).size
            /\ Elems(St, a) = WasElems(src)
            /\ vec[a].capacity = Was(src).size

\* C3: in every reachable state every vector has GetSize() <= GetCapacity().
C3_SizeWithinCapacity ==
    \A a \in DOMAIN vec : GetSize(St, a) <= GetCapacity(St, a)

\* C3 witness: a Resize beyond the capacity of a non-empty vector has
\* reallocated, and the vector is full.
C3_Witness ==
    /\ last.op = "Resize"
    /\ Was(last.a).size > 0
    /\ last.i > Was(last.a).capacity
    /\ GetSize(St, last.a) = GetCapacity(St, last.a)

\* C4: no two distinct vectors own the same array, and the array a vector
\* owns is a live allocation (it has not been released through another
\* owner).  A vector owns at most one array by construction: items_ is its
\* only owning member.
C4_SingleOwner ==
    \A a \in DOMAIN vec :
        vec[a].items # Null =>
            /\ heap[vec[a].items].alloc > 0
            /\ \A b \in DOMAIN vec : b # a => vec[b].items # vec[a].items

\* C4 witness: a move assignment between two vectors that both own an array
\* has exchanged the arrays, and both vectors still own one.
C4_Witness ==
    /\ last.op = "operator=(move)"
    /\ last.a # last.b
    /\ Was(last.a).alloc > 0
    /\ Was(last.b).alloc > 0
    /\ vec[last.a].items # Null
    /\ vec[last.b].items # Null

\* C5: a PushBack (either overload) called with size == capacity leaves the
\* capacity at exactly max(2 * old capacity, 1); called with size < capacity
\* it leaves the capacity unchanged.
C5_PushBackGrowthPolicy ==
    last.op \in PushBacks =>
        LET was == Was(last.a)
        IN  /\ was.size = was.capacity =>
                GetCapacity(St, last.a) = Max(2 * was.capacity, 1)
            /\ was.size < was.capacity =>
                GetCapacity(St, last.a) = was.capacity

\* C5 witness: a PushBack on a full vector of capacity 2 has grown it to 4.
C5_Witness ==
    /\ last.op \in PushBacks
    /\ Was(last.a).size = 2
    /\ Was(last.a).capacity = 2
    /\ GetCapacity(St, last.a) = 4

\* C6: PushBack(v) on any vector leaves size = old size + 1, v at index
\* old size and the former elements [0, old size) unchanged and in order.
C6_PushBackAppends ==
    last.op \in PushBacks =>
        /\ vec[last.a].size = Was(last.a).size + 1
        /\ Elems(St, last.a) = Append(WasElems(last.a), last.x)

\* C7: Erase(begin() + i) with i < size yields old[0..i) ++ old[i+1..size);
\* the size decreases by exactly 1, the capacity is unchanged and the
\* iterator returned denotes index i.
C7_EraseShifts ==
    last.op = "Erase" =>
        LET a == last.a
            i == last.i
            old == WasElems(a)
        IN  /\ vec[a].size = Len(old) - 1
            /\ Elems(St, a) = SubSeq(old, 1, i) \o SubSeq(old, i + 2, Len(old))
            /\ vec[a].capacity = Was(a).capacity
            /\ last.ret = Ref(vec[a].items, i)

\* C7 witness: an Erase in the middle of a vector whose neighbours of the
\* erased element differ, so that a shift in the wrong direction shows.
C7_Witness ==
    /\ last.op = "Erase"
    /\ Was(last.a).size >= 3
    /\ last.i > 0
    /\ last.i + 1 < Was(last.a).size
    /\ WasElems(last.a)[last.i] # WasElems(last.a)[last.i + 2]
    /\ WasElems(last.a)[last.i + 1] # WasElems(last.a)[last.i + 2]

\* C8: Resize(n) on a vector of size s and capacity c yields size n with the
\* elements [0, min(s, n)) unchanged; for n > s every slot of [s, n) holds
\* Type{}; the capacity stays c for n <= c and becomes exactly n for n > c.
C8_ResizeFills ==
    last.op = "Resize" =>
        LET a == last.a
            n == last.i
            s == Was(a).size
            c == Was(a).capacity
        IN  /\ vec[a].size = n
            /\ \A k \in 1..Min(s, n) : Elems(St, a)[k] = WasElems(a)[k]
            /\ \A k \in (s + 1)..n : Elems(St, a)[k] = Default
            /\ vec[a].capacity = IF n <= c THEN c ELSE n

\* C9: on a vector of size s, Resize(k) with k <= s directly followed by
\* Resize(j) with k <= j <= s leaves the first k elements at their original
\* values and Type{} in the slots [k, j), without reallocating: the capacity
\* and the array are those from before the first Resize.
C9_ShrinkThenRegrow ==
    (/\ last.op = "Resize"
     /\ last.i0 >= 0
     /\ last.i0 <= last.i
     /\ last.i <= last.pre0[last.a].size) =>
        LET a == last.a
            k == last.i0
            j == last.i
            orig == last.pre0[a]
        IN  /\ vec[a].size = j
            /\ \A n \in 1..k : Elems(St, a)[n] = orig.slots[n]
            /\ \A n \in (k + 1)..j : Elems(St, a)[n] = Default
            /\ vec[a].capacity = orig.capacity
            /\ Allocated(St, a) = orig.alloc

\* C9 witness: a vector holding only non-default elements has been shrunk
\* by two and regrown by one: one element is restored to Type{}, one slot
\* behind the new size still holds its old value.
C9_Witness ==
    /\ last.op = "Resize"
    /\ last.i0 >= 0
    /\ last.i = last.i0 + 1
    /\ last.pre0[last.a].size = last.i0 + 2
    /\ \A n \in 1..last.pre0[last.a].size : last.pre0[last.a].slots[n] = Other
    /\ Elems(St, last.a)[last.i] = Default

\* C10: At(i) throws std::out_of_range exactly for i >= size, also for i
\* below the capacity and on an empty vector, and then leaves the size, the
\* capacity and every element as they were; for i < size it returns the
\* reference operator[](i) returns.
C10_AtChecked ==
    last.op = "At" =>
        /\ last.thrown <=> last.i >= Was(last.a).size
        /\ last.thrown => \A v \in Vecs : Snap(St, v) = Was(v)
        /\ ~last.thrown => last.ret = Index(St, last.a, last.i)

\* C10 witness: At has thrown for an index between the size and the capacity
\* of a non-empty vector.
C10_Witness ==
    /\ last.op = "At"
    /\ last.thrown
    /\ Was(last.a).size > 0
    /\ last.i >= Was(last.a).size
    /\ last.i < Was(last.a).capacity

\* A program whose only vector is a default-constructed v.
Fresh(v) ==
    CtorDefault([heap |-> [p \in Ptrs |-> NoBuf],
                 vec  |-> [u \in Vecs \cup {Temp} |-> Dead]], v)

\* The state the call being observed leaves when it is made on a
\* default-constructed vector instead.
OnFresh ==
    LET v == last.a
    IN  CASE last.op = "PushBack(const&)" -> PushBackCopy(Fresh(v), v, last.x)
          [] last.op = "PushBack(&&)" -> PushBackMove(Fresh(v), v, last.x)
          [] last.op = "Insert" -> Insert(Fresh(v), v, last.i, last.x).st
          [] last.op = "Resize" -> Resize(Fresh(v), v, last.i)
          [] last.op = "Reserve" -> Reserve(Fresh(v), v, last.i)

Growers == PushBacks \cup {"Insert", "Resize", "Reserve"}

\* C11: move construction leaves the source with size 0 and capacity 0 and
\* gives the new vector the source's former size, capacity and elements in
\* order; a PushBack, Insert, Resize or Reserve that follows on the source
\* leaves it as the same call leaves a default-constructed vector.
C11_MoveConstruct ==
    /\ last.op = "SimpleVector(move)" =>
        /\ vec[last.b].size = 0
        /\ vec[last.b].capacity = 0
        /\ vec[last.a].size = Was(last.b).size
        /\ vec[last.a].capacity = Was(last.b).capacity
        /\ Elems(St, last.a) = WasElems(last.b)
    /\ (/\ last.op0 = "SimpleVector(move)"
        /\ last.a = last.b0
        /\ last.op \in Growers) =>
        /\ Snap(St, last.a) = Snap(OnFresh, last.a)
        /\ last.op = "Insert" => last.ret = Ref(vec[last.a].items, last.i)

\* C11 witness: a vector of two elements and spare capacity has been moved
\* from, and a PushBack has then been made on it; the new vector still holds
\* the two elements.
C11_Witness ==
    /\ last.op0 = "SimpleVector(move)"
    /\ last.a = last.b0
    /\ last.op \in PushBacks
    /\ last.pre0[last.b0].size = 2
    /\ last.pre0[last.b0].capacity > 2
    /\ GetSize(St, last.a) = 1
    /\ Elems(St, last.a0) = SubSeq(last.pre0[last.b0].slots, 1, 2)

\* C12: a = std::move(b) with a and b distinct gives a the former size,
\* capacity and elements of b and leaves b with size 0 and capacity 0;
\* a = b makes a equal to b element-wise and leaves b unchanged; an
\* assignment of a vector to itself, copy or move, leaves its size, capacity
\* and elements unchanged.
C12_Assignment ==
    /\ (last.op = "operator=(move)" /\ last.a # last.b) =>
        /\ vec[last.a].size = Was(last.b).size
        /\ vec[last.a].capacity = Was(last.b).capacity
        /\ Elems(St, last.a) = WasElems(last.b)
        /\ vec[last.b].size = 0
        /\ vec[last.b].capacity = 0
    /\ (last.op = "operator=(copy)" /\ last.a # last.b) =>
        /\ vec[last.a].size = vec[last.b].size
        /\ Elems(St, last.a) = Elems(St, last.b)
        /\ Snap(St, last.b) = Was(last.b)
    /\ (last.op \in {"operator=(copy)", "operator=(move)"} /\ last.a = last.b) =>
        Snap(St, last.a) = Was(last.a)

\* C12 witness: a non-empty vector has been move-assigned a non-empty vector
\* with spare capacity.
C12_Witness ==
    /\ last.op = "operator=(move)"
    /\ last.a # last.b
    /\ Was(last.a).size > 0
    /\ Was(last.b).size > 0
    /\ Was(last.b).capacity > Was(last.b).size
    /\ GetSize(St, last.a) = Was(last.b).size

Mutators ==
    PushBacks \cup {"operator[]=", "Insert", "Erase", "Resize", "Reserve", "Clear", "PopBack"}

\* C13: after a copy construction, a mutating operation (element write,
\* PushBack, Insert, Erase, Resize, Reserve, Clear, PopBack) on the copy
\* leaves the size, capacity and elements of the original unchanged, and
\* one on the original leaves those of the copy unchanged.
C13_DeepCopyIsolation ==
    (last.op0 = "SimpleVector(copy)" /\ last.op \in Mutators) =>
        \A v \in {last.a0, last.b0} \ {last.a} :
            /\ vec[v].size = Was(v).size
            /\ vec[v].capacity = Was(v).capacity
            /\ Elems(St, v) = WasElems(v)

\* C14: Reserve(n) makes the capacity exactly n when n exceeds it and leaves
\* it unchanged otherwise; the size and the elements [0, size) are unchanged
\* in both cases.
C14_Reserve ==
    last.op = "Reserve" =>
        LET a == last.a
            n == last.i
        IN  /\ vec[a].capacity = IF n > Was(a).capacity THEN n ELSE Was(a).capacity
            /\ vec[a].size = Was(a).size
            /\ Elems(St, a) = WasElems(a)

\* C14 witness: Reserve has grown the capacity of a vector that holds a
\* non-default element behind a default one.
C14_Witness ==
    /\ last.op = "Reserve"
    /\ last.i > Was(last.a).capacity
    /\ Was(last.a).size >= 2
    /\ WasElems(last.a)[1] = Default
    /\ WasElems(last.a)[2] = Other
    /\ GetCapacity(St, last.a) = last.i

Shrinkers == {"Clear", "PopBack", "Erase", "Resize"}

\* C15: Clear sets the size to 0, PopBack and Erase decrease it by 1 and
\* Resize(n) with n < size sets it to n; none of them changes the capacity or
\* reallocates, and the elements that remain in [0, new size), for Erase
\* those before the erased index, are the same as before.
C15_ShrinkKeepsCapacity ==
    (last.op \in Shrinkers /\ (last.op = "Resize" => last.i < Was(last.a).size)) =>
        LET a == last.a
            kept == CASE last.op = "Clear" -> 0
                      [] last.op = "PopBack" -> Was(a).size - 1
                      [] last.op = "Erase" -> last.i
                      [] last.op = "Resize" -> last.i
        IN  /\ vec[a].size = CASE last.op = "Clear" -> 0
                               [] last.op = "PopBack" -> Was(a).size - 1
                               [] last.op = "Erase" -> Was(a).size - 1
                               [] last.op = "Resize" -> last.i
            /\ vec[a].capacity = Was(a).capacity
            /\ Allocated(St, a) = Was(a).alloc
            /\ \A k \in 1..kept : Elems(St, a)[k] = WasElems(a)[k]

\* C15 witness: Clear has emptied a vector that held elements, and the
\* capacity is still what it was.
C15_Witness ==
    /\ last.op = "Clear"
    /\ Was(last.a).size >= 2
    /\ GetSize(St, last.a) = 0
    /\ GetCapacity(St, last.a) = Was(last.a).capacity

\* x is lexicographically less than y: they agree up to some index where x
\* ends and y does not, or where x holds the smaller element.
LexLess(x, y) ==
    \E k \in 1..Len(y) :
        /\ k <= Len(x) + 1
        /\ \A j \in 1..(k - 1) : x[j] = y[j]
        /\ k = Len(x) + 1 \/ x[k] < y[k]

\* C16: a == b exactly if the sizes are equal and the elements at every
\* index of [0, size) are equal; a < b exactly if the live elements of a are
\* lexicographically less than those of b; !=, <=, > and >= are the
\* complements and converses.  The results are functions of the live
\* elements alone.
C16_Comparisons ==
    last.op = "compare" =>
        LET x == Elems(St, last.a)
            y == Elems(St, last.b)
        IN  /\ last.res.eq <=> (Len(x) = Len(y) /\ \A k \in 1..Len(x) : x[k] = y[k])
            /\ last.res.lt <=> LexLess(x, y)
            /\ last.res.ne <=> ~last.res.eq
            /\ last.res.gt <=> LexLess(y, x)
            /\ last.res.le <=> ~LexLess(y, x)
            /\ last.res.ge <=> ~LexLess(x, y)

\* C16 witness: a vector has compared less than another that extends it,
\* while the slot behind its last element holds more than the other
\* vector's element there.
C16_Witness ==
    /\ last.op = "compare"
    /\ last.res.lt
    /\ ~last.res.eq
    /\ vec[last.a].size >= 1
    /\ vec[last.b].size = vec[last.a].size + 1
    /\ vec[last.a].capacity >= vec[last.b].size
    /\ Was(last.a).slots[vec[last.b].size] = Other
    /\ Elems(St, last.b)[vec[last.b].size] = Default

\* C18: in every reachable state the capacity of every vector is at most the
\* number of elements of the array it owns, so that no live element lies
\* outside that array: no call has stored past its end.
C18_CapacityWithinAllocation ==
    /\ \A a \in DOMAIN vec : GetCapacity(St, a) <= Allocated(St, a)
    /\ InBounds(St)

\* C19: from every state and for every value, PushBack(const Type&) and
\* PushBack(Type&&) leave the vector with the same size, the same capacity
\* and the same elements.
C19_PushBackOverloadsAgree ==
    \A a \in Vecs, x \in Values :
        vec[a].alive =>
            LET byCopy == PushBackCopy(St, a, x)
                byMove == PushBackMove(St, a, x)
            IN  /\ GetSize(byCopy, a) = GetSize(byMove, a)
                /\ GetCapacity(byCopy, a) = GetCapacity(byMove, a)
                /\ Elems(byCopy, a) = Elems(byMove, a)

\* C19 witness: a PushBack has left a vector full with two different
\* elements, so that either overload reallocates and moves them from here.
C19_Witness ==
    /\ last.op \in PushBacks
    /\ GetSize(St, last.a) = 2
    /\ GetCapacity(St, last.a) = 2
    /\ Elems(St, last.a) = <<Other, Default>>
    /\ Elems(PushBackMove(St, last.a, Other), last.a) = <<Other, Default, Other>>

\* C20: swap gives each of the two vectors the other's former size,
\* capacity and elements (its whole array); the same swap once more restores
\* both vectors exactly, and a swap of a vector with itself changes nothing.
C20_Swap ==
    /\ last.op = "swap" =>
        /\ Snap(St, last.a) = Was(last.b)
        /\ Snap(St, last.b) = Was(last.a)
    /\ (last.op = "swap" /\ last.op0 = "swap") =>
        \A v \in Vecs : Snap(St, v) = last.pre0[v]

\* C20 witness: two vectors of different sizes and capacities have been
\* swapped twice.
C20_Witness ==
    /\ last.op = "swap"
    /\ last.op0 = "swap"
    /\ last.a # last.b
    /\ GetSize(St, last.a) > GetSize(St, last.b)
    /\ GetSize(St, last.b) > 0
    /\ GetCapacity(St, last.a) > GetCapacity(St, last.b)
    /\ GetCapacity(St, last.b) > GetSize(St, last.b)

\* ------------------------------------------------ consecutive PushBacks
\* PushSpec: a program that default-constructs a vector and only calls
\* PushBack on it, up to MaxPush times, with either overload and any values.
\* last counts the calls (n) and the elements their reallocations have moved
\* from the old array to the new one (moves).

Pushed == CHOOSE v \in Vecs : TRUE

PushInit ==
    /\ heap = Fresh(Pushed).heap
    /\ vec = Fresh(Pushed).vec
    /\ last = [op |-> "SimpleVector()", x |-> 0 - 1, n |-> 0, moves |-> 0]

PushCall(S, op, x, moved) ==
    LET T == Canon(S, Renaming(S))
    IN  /\ last.n < MaxPush
        /\ heap' = T.heap
        /\ vec' = T.vec
        /\ last' = [op |-> op, x |-> x, n |-> last.n + 1, moves |-> last.moves + moved]

PushCopyNext ==
    \E x \in Values :
        PushCall(PushBackCopy(St, Pushed, x), "PushBack(const&)", x,
                 MovesOfPushBackCopy(St, Pushed))

PushMoveNext ==
    \E x \in Values :
        PushCall(PushBackMove(St, Pushed, x), "PushBack(&&)", x,
                 MovesOfPushBackMove(St, Pushed))

PushNext == PushCopyNext \/ PushMoveNext

PushSpec == PushInit /\ [][PushNext]_vars

\* C17: the reallocations of N >= 1 consecutive PushBack calls on a
\* default-constructed vector move fewer than 2N elements in total.
C17_AmortizedMoves ==
    last.n >= 1 => last.moves < 2 * last.n

\* C17 witness: five PushBack calls have reallocated four times (capacities
\* 1, 2, 4, 8) and moved 0 + 1 + 2 + 4 = 7 elements.
C17_Witness ==
    /\ last.n = 5
    /\ vec[Pushed].size = 5
    /\ vec[Pushed].capacity = 8
    /\ last.moves = 7

====
